---- MODULE Spec2Model ----
(***************************************************************************)
(* The Treiber stack of coco (src/src/stack.rs) on top of the epoch-based  *)
(* reclamation subsystem it consumes (module `epoch`, whose source is not  *)
(* part of the tree under src/: it is modelled from spec.md, section 4.1). *)
(*                                                                         *)
(* Memory is a fixed pool of node addresses.  An address is handed out by  *)
(* the allocator, published into `head`, retired into the garbage bag and  *)
(* freed; a freed address may be handed out again.  Reading freed memory   *)
(* is undefined behaviour and yields an arbitrary value.                   *)
(***************************************************************************)
EXTENDS Integers, Sequences, FiniteSets, Bags, TLC

\* Number of worker threads of the concurrent runs (tests::stress uses 8).
THREADS == 2
\* Operations each worker thread performs in a concurrent run.
MaxOps == 3
\* Operations of a single-threaded run with freely chosen operations.
MaxSeqOps == 5
\* Size of the pool of node addresses of a concurrent run.
MaxNodes == 2
\* Size of the pool of node addresses of a single-threaded run.
MaxSeqNodes == 4
\* The global epoch stops advancing at this value.
MaxEpoch == 3
\* Operations each thread performs in the runs that are checked for progress.
MaxLiveOps == 2
\* The deepest nesting of pinned scopes of one thread.
MaxDepth == 2

\* Atomic::null()
Null == 0
\* The "not pinned" sentinel of a participant record.
NotPinned == -1

\* Values an arbitrary read of freed memory can produce.
AnyValue == 0 .. (THREADS * MaxOps)

VARIABLES
    head,       \* Stack::head
    state,      \* per address: "unalloc" | "unpublished" | "published" | "retired" | "freed"
    value,      \* Node::value per address
    next,       \* Node::next per address
    epoch,      \* the global epoch
    local,      \* participant record: local epoch, or NotPinned
    depth,      \* participant record: pin-depth
    garbage,    \* the garbage bags: a bag of <<address, tag>>
    pc,         \* per thread: position inside the current operation
    op,         \* per thread: the operation in progress
    node,       \* push: the Owned node (its address)
    hd,         \* push/pop: the local `head`
    nx,         \* pop: the local `next`
    ret,        \* result of the operation: <<>> is None / (), <<v>> is Some(v)
    empty,      \* result of is_empty
    ops,        \* per thread: operations completed
    script,     \* per thread: the operations to perform; <<>> and AnyOp mean freely chosen
    dpc,        \* owner of the stack: "live" | "drop" | "dropped"
    curr,       \* Drop: the local `curr`
    stale,      \* per thread: the pointers held ("hd", "nx") whose node has been freed since the load
    undefined,  \* an undefined behaviour has happened (free of a non-retired node, ...)
    pushed,     \* set of values whose push has returned
    popped,     \* bag of the values returned by pop as Some
    dropped,    \* number of payload destructor invocations
    abs,        \* the sequential stack, updated at the linearization points
    lin,        \* per thread: result of the operation at its linearization point
    linEmpty,   \* per thread: result of is_empty at its linearization point
    hist,       \* single-threaded runs: the completed calls with their results
    seen,       \* per thread: the nodes that were Published at some time in its current scope
    interfered, \* per thread: another thread's CAS on head has succeeded since it last read head
    retried     \* per thread: the CAS of its current push has failed and given the node back

vars == <<head, state, value, next, epoch, local, depth, garbage, pc, op, node, hd, nx,
          ret, empty, ops, script, dpc, curr, stale, undefined, pushed, popped, dropped,
          abs, lin, linEmpty, hist, seen, interfered, retried>>

memVars == <<state, value, next>>
epochVars == <<epoch, local, depth, garbage>>
localVars == <<node, hd, nx, ret, empty>>
progVars == <<op, ops, script>>
dropVars == <<dpc, curr>>
ghostVars == <<pushed, popped, dropped, hist>>
linVars == <<abs, lin, linEmpty>>
scopeVars == <<seen, interfered, retried>>

Threads == DOMAIN pc

\* The pool of node addresses, and the pointers to them.
Addr == DOMAIN state
Ptr == Addr \cup {Null}

Push(v) == [name |-> "push", arg |-> v]
Pop == [name |-> "pop", arg |-> 0]
IsEmpty == [name |-> "is_empty", arg |-> 0]
\* An entry of a script that leaves the operation to be chosen.
AnyOp == [name |-> "any", arg |-> 0]

\* tests::push_pop, with is_empty calls of tests::is_empty in between.
Scenario ==
    << Push(1), Push(2), Push(3), Pop, Push(4), IsEmpty, Pop, Pop, Pop, IsEmpty,
       Pop, Push(5), Pop, Pop >>

\* The number of operations thread t performs.
Limit(t) ==
    IF script[t] # <<>> THEN Len(script[t])
    ELSE IF Cardinality(Threads) = 1 THEN MaxSeqOps ELSE MaxOps

\* tests::stress: thread t pushes t + THREADS * i in its i-th iteration.
StressValue(t, i) == t + THREADS * i

\* The operations thread t may perform as its i-th (from 0), as in tests::stress.
OpsAt(t, i) == {Push(StressValue(t, i)), Pop, IsEmpty}

\* The operations thread t may begin next.
Choices(t) ==
    IF script[t] = <<>> \/ script[t][ops[t] + 1] = AnyOp THEN OpsAt(t, ops[t])
    ELSE {script[t][ops[t] + 1]}

\* Memory that is currently allocated: reading it yields what it holds.
Allocated(a) == state[a] \in {"unpublished", "published", "retired"}

\* What a read of `next` through pointer a can yield.
ReadNext(a) == IF Allocated(a) THEN {next[a]} ELSE Ptr
\* What a read of `value` through pointer a can yield.
ReadValue(a) == IF Allocated(a) THEN {value[a]} ELSE AnyValue

\* Ptr::is_null / Ptr::as_ref
IsNull(p) == p = Null

\* The comparison of a compare-and-swap on head.
CasAlways(expected) == TRUE
CasMatches(expected) == head = expected

\* What a failed compare-and-swap on head hands back (Err(h)): the value head has.
CasErrStale(expected) == expected
CasErr(expected) == head

\* push, line 78: node.next.store(head, Relaxed) links the node to the head read.
PushLinkNone(h) == Null
PushLink(h) == h

\* is_empty, line 55: the result for the head that was loaded.
IsEmptyNegated(h) == ~IsNull(h)
IsEmptyResult(h) == IsNull(h)

(***************************************************************************)
(* The epoch manager (spec.md, section 4.1).                               *)
(***************************************************************************)

\* pin(): registers the participant at the current global epoch on its
\* outermost pin and increments its pin-depth.
PinnedLocal(t) == IF depth[t] = 0 THEN epoch ELSE local[t]

\* unpin(): the local epoch once the pin-depth has been decremented to d.
UnpinnedLocalAlways(t, d) == NotPinned
UnpinnedLocal(t, d) == IF d = 0 THEN NotPinned ELSE local[t]

\* try_advance(): no currently pinned participant lags behind the global epoch.
AllCaughtUpUnchecked == TRUE
AllCaughtUp == \A t \in Threads : local[t] # NotPinned => local[t] = epoch

\* defer_free(): the tag of the garbage bag the node goes to.  The bags hold
\* (retirement-epoch, destructor) pairs, one bag per generation (spec.md,
\* section 3), and a node "retired at epoch E" is freed once the global epoch is
\* two generations past E: the tag is the generation current when the scope
\* retires the node.  Tagging with the epoch the scope recorded when it was
\* pinned, which can be one generation older, is DeferTagAtPin.
DeferTagAtPin(t) == local[t]
DeferTag(t) == epoch

\* collect(): a bag is collected when its tag is at least two generations
\* behind the global epoch.
CollectableNow(tag) == tag <= epoch
CollectableAfterOne(tag) == tag + 1 <= epoch
Collectable(tag) == tag + 2 <= epoch

\* The payload destructors that run when the nodes S, retired with
\* defer_free, are freed: defer_free releases the memory of the node only (the
\* payload has been moved out by pop, line 116).
DeferFreeDropsAll(S) == Cardinality(S)
DeferFreeDrops(S) == 0

\* The state of memory after the addresses in S have been freed.
FreedState(S) == [a \in Addr |-> IF a \in S THEN "freed" ELSE state[a]]
FreedValue(S) == [a \in Addr |-> IF a \in S THEN 0 ELSE value[a]]
FreedNext(S) == [a \in Addr |-> IF a \in S THEN Null ELSE next[a]]

\* Thread t holds in hd a pointer it loaded in its current scope.
Holding(t) ==
    /\ pc[t] \in {"push_cas", "pop_deref", "pop_cas", "pop_retire", "pop_read"}
    /\ hd[t] # Null

\* Thread t holds in nx a pointer it loaded from a node's next in its current scope.
HoldingNext(t) == pc[t] = "pop_cas" /\ nx[t] # Null

StaleAfter(S) ==
    [t \in Threads |->
        stale[t] \cup (IF Holding(t) /\ hd[t] \in S THEN {"hd"} ELSE {})
                 \cup (IF HoldingNext(t) /\ nx[t] \in S THEN {"nx"} ELSE {})]

\* The nodes a scope opened by pin() can observe from its start: on the
\* outermost pin the nodes that are Published, in a nested scope those of the
\* enclosing scope.
SeenAtPin(t) == IF depth[t] = 0 THEN {a \in Addr : state[a] = "published"} ELSE seen[t]

\* Node a has been published: every pinned participant can observe it.
SeenAfterPublish(a) ==
    [u \in Threads |-> IF local[u] # NotPinned THEN seen[u] \cup {a} ELSE seen[u]]

\* Thread t holds a value of head it read and has not yet used in a CAS.
ReadHead(t) == pc[t] \in {"push_cas", "pop_deref", "pop_cas"}

\* A CAS of thread t on head has succeeded: the threads that read head before
\* it have been overtaken.
InterferedBy(t) ==
    [u \in Threads |-> IF u # t /\ ReadHead(u) THEN TRUE ELSE interfered[u]]

TryAdvance ==
    /\ epoch < MaxEpoch
    /\ AllCaughtUp
    /\ epoch' = epoch + 1
    /\ UNCHANGED <<head, memVars, local, depth, garbage, pc, localVars, progVars,
                   dropVars, stale, undefined, ghostVars, linVars>>
    /\ UNCHANGED scopeVars

Collect ==
    LET E == {e \in BagToSet(garbage) : Collectable(e[2])}
        S == {e[1] : e \in E}
    IN  /\ E # {}
        /\ garbage' = [e \in BagToSet(garbage) \ E |-> garbage[e]]
        /\ state' = FreedState(S)
        /\ value' = FreedValue(S)
        /\ next' = FreedNext(S)
        /\ stale' = StaleAfter(S)
        /\ undefined' = (undefined \/ \E e \in E :
                            \/ state[e[1]] # "retired"
                            \/ garbage[e] > 1
                            \/ \E f \in E : f # e /\ f[1] = e[1])
        /\ dropped' = dropped + DeferFreeDrops(S)
        /\ UNCHANGED <<head, epoch, local, depth, pc, localVars, progVars, dropVars,
                       pushed, popped, hist, linVars>>
        /\ UNCHANGED scopeVars

(***************************************************************************)
(* The stack (src/src/stack.rs).                                           *)
(***************************************************************************)

\* The result of the sequential stack's pop, and the stack it leaves.
AbsPopResult == IF abs = <<>> THEN <<>> ELSE <<Head(abs)>>
AbsPopRest == IF abs = <<>> THEN <<>> ELSE Tail(abs)

\* push, lines 70-73: Owned::new(Node { value, next: Atomic::null() })
PushNew(t) ==
    /\ dpc = "live"
    /\ pc[t] = "idle"
    /\ \E o \in Choices(t) : \E a \in Addr :
        /\ o.name = "push"
        /\ ~Allocated(a)
        /\ op' = [op EXCEPT ![t] = o]
        /\ node' = [node EXCEPT ![t] = a]
        /\ state' = [state EXCEPT ![a] = "unpublished"]
        /\ value' = [value EXCEPT ![a] = o.arg]
        /\ next' = [next EXCEPT ![a] = Null]
    /\ pc' = [pc EXCEPT ![t] = "push_pin"]
    /\ UNCHANGED <<head, epochVars, hd, nx, ret, empty, ops, script, dropVars, stale,
                   undefined, ghostVars, linVars>>
    /\ UNCHANGED scopeVars

\* push, line 75: epoch::pin
PushPin(t) ==
    /\ pc[t] = "push_pin"
    /\ local' = [local EXCEPT ![t] = PinnedLocal(t)]
    /\ depth' = [depth EXCEPT ![t] = @ + 1]
    /\ pc' = [pc EXCEPT ![t] = "push_load"]
    /\ UNCHANGED <<head, memVars, epoch, garbage, localVars, progVars, dropVars, stale,
                   undefined, ghostVars, linVars>>
    /\ seen' = [seen EXCEPT ![t] = SeenAtPin(t)]
    /\ UNCHANGED <<interfered, retried>>

\* push, lines 76-78: head = self.head.load(Acquire); node.next.store(head, Relaxed)
PushLoad(t) ==
    /\ pc[t] = "push_load"
    /\ hd' = [hd EXCEPT ![t] = head]
    /\ next' = [next EXCEPT ![node[t]] = PushLink(head)]
    /\ stale' = [stale EXCEPT ![t] = {}]
    /\ pc' = [pc EXCEPT ![t] = "push_cas"]
    /\ UNCHANGED <<head, state, value, epochVars, node, nx, ret, empty, progVars,
                   dropVars, undefined, ghostVars, linVars>>
    /\ interfered' = [interfered EXCEPT ![t] = FALSE]
    /\ UNCHANGED <<seen, retried>>

\* push, lines 79-85: compare_and_swap_weak_owned(head, node); on failure the
\* refreshed head and the node come back and the loop stores next again (line 78).
\* ok = FALSE is a failure of the weak CAS, spurious when head still matches.
PushCas(t) ==
    /\ pc[t] = "push_cas"
    /\ \E ok \in BOOLEAN :
        IF ok /\ CasMatches(hd[t])
        THEN /\ head' = node[t]
             /\ state' = [state EXCEPT ![node[t]] = "published"]
             /\ abs' = <<value[node[t]]>> \o abs
             /\ lin' = [lin EXCEPT ![t] = <<>>]
             /\ pc' = [pc EXCEPT ![t] = "unpin"]
             /\ seen' = SeenAfterPublish(node[t])
             /\ interfered' = InterferedBy(t)
             /\ UNCHANGED <<next, hd, stale, retried>>
        ELSE /\ hd' = [hd EXCEPT ![t] = CasErr(hd[t])]
             /\ next' = [next EXCEPT ![node[t]] = PushLink(CasErr(hd[t]))]
             /\ stale' = [stale EXCEPT ![t] = {}]
             /\ interfered' = [interfered EXCEPT ![t] = FALSE]
             /\ retried' = [retried EXCEPT ![t] = TRUE]
             /\ UNCHANGED <<head, state, abs, lin, pc, seen>>
    /\ UNCHANGED <<value, epochVars, node, nx, ret, empty, progVars, dropVars,
                   undefined, ghostVars, linEmpty>>

\* pop, lines 107-108: epoch::pin; head = self.head.load(Acquire)
PopPin(t) ==
    /\ dpc = "live"
    /\ pc[t] = "idle"
    /\ Pop \in Choices(t)
    /\ op' = [op EXCEPT ![t] = Pop]
    /\ local' = [local EXCEPT ![t] = PinnedLocal(t)]
    /\ depth' = [depth EXCEPT ![t] = @ + 1]
    /\ pc' = [pc EXCEPT ![t] = "pop_load"]
    /\ UNCHANGED <<head, memVars, epoch, garbage, localVars, ops, script, dropVars,
                   stale, undefined, ghostVars, linVars>>
    /\ seen' = [seen EXCEPT ![t] = SeenAtPin(t)]
    /\ UNCHANGED <<interfered, retried>>

\* A pop that reads head as null takes effect at that read.
LinAtNull(t, h) == IF IsNull(h) THEN [lin EXCEPT ![t] = AbsPopResult] ELSE lin
AbsAtNull(h) == IF IsNull(h) THEN AbsPopRest ELSE abs

PopLoad(t) ==
    /\ pc[t] = "pop_load"
    /\ hd' = [hd EXCEPT ![t] = head]
    /\ stale' = [stale EXCEPT ![t] = {}]
    /\ lin' = LinAtNull(t, head)
    /\ abs' = AbsAtNull(head)
    /\ pc' = [pc EXCEPT ![t] = "pop_deref"]
    /\ UNCHANGED <<head, memVars, epochVars, node, nx, ret, empty, progVars, dropVars,
                   undefined, ghostVars, linEmpty>>
    /\ interfered' = [interfered EXCEPT ![t] = FALSE]
    /\ UNCHANGED <<seen, retried>>

\* pop, lines 110-112 and 121: match head.as_ref(): None => return None;
\* Some(h) => next = h.next.load(Acquire)
PopDeref(t) ==
    /\ pc[t] = "pop_deref"
    /\ IF IsNull(hd[t])
       THEN /\ ret' = [ret EXCEPT ![t] = <<>>]
            /\ pc' = [pc EXCEPT ![t] = "unpin"]
            /\ UNCHANGED <<nx, undefined>>
       ELSE /\ \E p \in ReadNext(hd[t]) : nx' = [nx EXCEPT ![t] = p]
            /\ undefined' = (undefined \/ ~Allocated(hd[t]) \/ "hd" \in stale[t])
            /\ pc' = [pc EXCEPT ![t] = "pop_cas"]
            /\ UNCHANGED ret
    /\ UNCHANGED <<head, memVars, epochVars, node, hd, empty, progVars, dropVars, stale,
                   ghostVars, linVars>>
    /\ UNCHANGED scopeVars

\* pop, line 113: the pointer the CAS installs in head.
PopNewHeadSame(t) == hd[t]
PopNewHead(t) == nx[t]

\* pop, lines 113-119: compare_and_swap_weak(head, next)
PopCas(t) ==
    /\ pc[t] = "pop_cas"
    /\ \E ok \in BOOLEAN :
        IF ok /\ CasMatches(hd[t])
        THEN /\ head' = PopNewHead(t)
             /\ lin' = [lin EXCEPT ![t] = AbsPopResult]
             /\ abs' = AbsPopRest
             /\ pc' = [pc EXCEPT ![t] = "pop_retire"]
             /\ interfered' = InterferedBy(t)
             /\ UNCHANGED <<hd, stale, retried>>
        ELSE /\ hd' = [hd EXCEPT ![t] = CasErr(hd[t])]
             /\ stale' = [stale EXCEPT ![t] = {}]
             /\ lin' = LinAtNull(t, CasErr(hd[t]))
             /\ abs' = AbsAtNull(CasErr(hd[t]))
             /\ pc' = [pc EXCEPT ![t] = "pop_deref"]
             /\ interfered' = [interfered EXCEPT ![t] = FALSE]
             /\ UNCHANGED <<head, retried>>
    /\ UNCHANGED <<memVars, epochVars, node, nx, ret, empty, progVars, dropVars,
                   undefined, ghostVars, linEmpty, seen>>

\* pop, line 115: scope.defer_free(head)
PopRetire(t) ==
    /\ pc[t] = "pop_retire"
    /\ garbage' = garbage (+) SetToBag({<<hd[t], DeferTag(t)>>})
    /\ state' = [state EXCEPT ![hd[t]] = IF Allocated(hd[t]) THEN "retired" ELSE @]
    /\ undefined' = (undefined \/ state[hd[t]] # "published")
    /\ pc' = [pc EXCEPT ![t] = "pop_read"]
    /\ UNCHANGED <<head, value, next, epoch, local, depth, localVars, progVars,
                   dropVars, stale, ghostVars, linVars>>
    /\ UNCHANGED scopeVars

\* pop, line 116: return Some(ptr::read(&h.value))
PopRead(t) ==
    /\ pc[t] = "pop_read"
    /\ \E v \in ReadValue(hd[t]) : ret' = [ret EXCEPT ![t] = <<v>>]
    /\ undefined' = (undefined \/ ~Allocated(hd[t]) \/ "hd" \in stale[t])
    /\ pc' = [pc EXCEPT ![t] = "unpin"]
    /\ UNCHANGED <<head, memVars, epochVars, node, hd, nx, empty, progVars, dropVars,
                   stale, ghostVars, linVars>>
    /\ UNCHANGED scopeVars

\* is_empty, line 55: epoch::pin
IsEmptyPin(t) ==
    /\ dpc = "live"
    /\ pc[t] = "idle"
    /\ IsEmpty \in Choices(t)
    /\ op' = [op EXCEPT ![t] = IsEmpty]
    /\ local' = [local EXCEPT ![t] = PinnedLocal(t)]
    /\ depth' = [depth EXCEPT ![t] = @ + 1]
    /\ pc' = [pc EXCEPT ![t] = "ie_load"]
    /\ UNCHANGED <<head, memVars, epoch, garbage, localVars, ops, script, dropVars,
                   stale, undefined, ghostVars, linVars>>
    /\ seen' = [seen EXCEPT ![t] = SeenAtPin(t)]
    /\ UNCHANGED <<interfered, retried>>

\* is_empty, line 55: self.head.load(Acquire, scope).is_null()
IsEmptyLoad(t) ==
    /\ pc[t] = "ie_load"
    /\ empty' = [empty EXCEPT ![t] = IsEmptyResult(head)]
    /\ linEmpty' = [linEmpty EXCEPT ![t] = (abs = <<>>)]
    /\ pc' = [pc EXCEPT ![t] = "unpin"]
    /\ UNCHANGED <<head, memVars, epochVars, node, hd, nx, ret, progVars, dropVars,
                   stale, undefined, ghostVars, abs, lin>>
    /\ UNCHANGED scopeVars

\* The record of a completed call.
Call(t) == [name |-> op[t].name, arg |-> op[t].arg, res |-> ret[t], empty |-> empty[t]]

\* The end of epoch::pin's closure: the scope is released and the operation
\* returns.  The caller of pop drops the value it got (tests, lines 218, 274).
Unpin(t) ==
    /\ pc[t] = "unpin"
    /\ depth' = [depth EXCEPT ![t] = @ - 1]
    /\ local' = [local EXCEPT ![t] = UnpinnedLocal(t, depth[t] - 1)]
    /\ ops' = [ops EXCEPT ![t] = @ + 1]
    /\ pc' = [pc EXCEPT ![t] = IF ops[t] + 1 = Limit(t) THEN "done" ELSE "idle"]
    /\ pushed' = IF op[t].name = "push" THEN pushed \cup {op[t].arg} ELSE pushed
    /\ popped' = IF op[t].name = "pop" /\ ret[t] # <<>>
                 THEN popped (+) SetToBag({ret[t][1]}) ELSE popped
    /\ dropped' = IF op[t].name = "pop" /\ ret[t] # <<>> THEN dropped + 1 ELSE dropped
    /\ hist' = IF Cardinality(Threads) = 1 THEN Append(hist, Call(t)) ELSE hist
    /\ node' = [node EXCEPT ![t] = Null]
    /\ hd' = [hd EXCEPT ![t] = Null]
    /\ nx' = [nx EXCEPT ![t] = Null]
    /\ ret' = [ret EXCEPT ![t] = <<>>]
    /\ empty' = [empty EXCEPT ![t] = FALSE]
    /\ lin' = [lin EXCEPT ![t] = <<>>]
    /\ linEmpty' = [linEmpty EXCEPT ![t] = FALSE]
    /\ stale' = [stale EXCEPT ![t] = {}]
    /\ UNCHANGED <<head, memVars, epoch, garbage, op, script, dropVars, undefined, abs>>
    /\ seen' = [seen EXCEPT ![t] = IF depth[t] = 1 THEN {} ELSE @]
    /\ interfered' = [interfered EXCEPT ![t] = FALSE]
    /\ retried' = [retried EXCEPT ![t] = FALSE]

\* Drop for Stack, line 133: curr = self.head.load(Relaxed).as_raw(), once every
\* thread has been joined.
DropBegin ==
    /\ dpc = "live"
    /\ \A t \in Threads : pc[t] = "done" /\ depth[t] = 0
    /\ dpc' = "drop"
    /\ curr' = head
    /\ UNCHANGED <<head, memVars, epochVars, pc, localVars, progVars, stale, undefined,
                   ghostVars, linVars>>
    /\ UNCHANGED scopeVars

\* Drop for Stack, line 135: next = (*curr).next.load(Relaxed).as_raw()
DropNextNone(c) == Null
DropNext(c) == next[c]

\* Drop for Stack, lines 134-138: one iteration of the loop, or its exit.
\* drop(Box::from_raw(curr)) runs the payload's destructor and frees the node.
\* Freeing memory that is not allocated is undefined; the walk is not followed
\* beyond it.
DropLoop ==
    /\ dpc = "drop"
    /\ IF IsNull(curr)
       THEN /\ dpc' = "dropped"
            /\ UNCHANGED <<curr, memVars, dropped, undefined, stale>>
       ELSE IF Allocated(curr)
       THEN /\ curr' = DropNext(curr)
            /\ state' = FreedState({curr})
            /\ value' = FreedValue({curr})
            /\ next' = FreedNext({curr})
            /\ stale' = StaleAfter({curr})
            /\ dropped' = dropped + 1
            /\ UNCHANGED <<dpc, undefined>>
       ELSE /\ undefined' = TRUE
            /\ dpc' = "dropped"
            /\ UNCHANGED <<curr, memVars, dropped, stale>>
    /\ UNCHANGED <<head, epochVars, pc, localVars, progVars, pushed, popped, hist,
                   linVars>>
    /\ UNCHANGED scopeVars

Next ==
    \/ \E t \in Threads : PushNew(t)
    \/ \E t \in Threads : PushPin(t)
    \/ \E t \in Threads : PushLoad(t)
    \/ \E t \in Threads : PushCas(t)
    \/ \E t \in Threads : PopPin(t)
    \/ \E t \in Threads : PopLoad(t)
    \/ \E t \in Threads : PopDeref(t)
    \/ \E t \in Threads : PopCas(t)
    \/ \E t \in Threads : PopRetire(t)
    \/ \E t \in Threads : PopRead(t)
    \/ \E t \in Threads : IsEmptyPin(t)
    \/ \E t \in Threads : IsEmptyLoad(t)
    \/ \E t \in Threads : Unpin(t)
    \/ TryAdvance
    \/ Collect
    \/ DropBegin
    \/ DropLoop

\* Stack::new() (line 39) with the threads T about to run the scripts scr on a
\* pool of n addresses.
InitWith(T, scr, n) ==
    /\ head = Null
    /\ state = [a \in 1 .. n |-> "unalloc"]
    /\ value = [a \in 1 .. n |-> 0]
    /\ next = [a \in 1 .. n |-> Null]
    /\ epoch = 0
    /\ local = [t \in T |-> NotPinned]
    /\ depth = [t \in T |-> 0]
    /\ garbage = EmptyBag
    /\ pc = [t \in T |-> "idle"]
    /\ op = [t \in T |-> IsEmpty]
    /\ node = [t \in T |-> Null]
    /\ hd = [t \in T |-> Null]
    /\ nx = [t \in T |-> Null]
    /\ ret = [t \in T |-> <<>>]
    /\ empty = [t \in T |-> FALSE]
    /\ ops = [t \in T |-> 0]
    /\ script = scr
    /\ dpc = "live"
    /\ curr = Null
    /\ stale = [t \in T |-> {}]
    /\ undefined = FALSE
    /\ pushed = {}
    /\ popped = EmptyBag
    /\ dropped = 0
    /\ abs = <<>>
    /\ lin = [t \in T |-> <<>>]
    /\ linEmpty = [t \in T |-> FALSE]
    /\ hist = <<>>
    /\ seen = [t \in T |-> {}]
    /\ interfered = [t \in T |-> FALSE]
    /\ retried = [t \in T |-> FALSE]

\* THREADS threads, each performing MaxOps freely chosen operations (tests::stress).
Init == InitWith(0 .. THREADS - 1, [t \in 0 .. THREADS - 1 |-> <<>>], MaxNodes)

\* One thread: MaxSeqOps freely chosen operations, or the scenario of tests::push_pop.
SeqInit == \E s \in {<<>>, Scenario} : InitWith({0}, [t \in {0} |-> s], MaxSeqNodes)

Spec == Init /\ [][Next]_vars
SeqSpec == SeqInit /\ [][Next]_vars

\* THREADS threads, each performing MaxLiveOps freely chosen operations.
LiveInit ==
    InitWith(0 .. THREADS - 1, [t \in 0 .. THREADS - 1 |-> [i \in 1 .. MaxLiveOps |-> AnyOp]],
             MaxNodes)

\* A step of thread t.
ThreadStep(t) ==
    \/ PushNew(t) \/ PushPin(t) \/ PushLoad(t) \/ PushCas(t)
    \/ PopPin(t) \/ PopLoad(t) \/ PopDeref(t) \/ PopCas(t) \/ PopRetire(t) \/ PopRead(t)
    \/ IsEmptyPin(t) \/ IsEmptyLoad(t) \/ Unpin(t)

\* A CAS of thread t on head that succeeds.
CasWins(t) ==
    \/ PushCas(t) /\ pc'[t] = "unpin"
    \/ PopCas(t) /\ pc'[t] = "pop_retire"

\* A thread that is scheduled keeps taking steps, and the weak CAS does not fail
\* forever when the comparison keeps matching.
Runs(t) == WF_vars(ThreadStep(t)) /\ SF_vars(CasWins(t))

\* Epoch advancement and collection keep being attempted.
Reclaims == WF_vars(TryAdvance) /\ WF_vars(Collect)

\* Thread 0 may stop for ever at any point, inside a pinned scope or not; the
\* other threads keep running.
StallSpec ==
    LiveInit /\ [][Next]_vars /\ Reclaims /\ \A t \in 1 .. THREADS - 1 : Runs(t)

\* pin() by the caller of the stack: a scope of its own, inside which it calls
\* push, pop and is_empty, whose scopes are then nested in it.
OuterPin(t) ==
    /\ dpc = "live"
    /\ pc[t] = "idle"
    /\ depth[t] + 1 < MaxDepth
    /\ local' = [local EXCEPT ![t] = PinnedLocal(t)]
    /\ depth' = [depth EXCEPT ![t] = @ + 1]
    /\ seen' = [seen EXCEPT ![t] = SeenAtPin(t)]
    /\ UNCHANGED <<head, memVars, epoch, garbage, pc, localVars, progVars, dropVars,
                   stale, undefined, ghostVars, linVars, interfered, retried>>

\* unpin() of a scope of the caller, between two calls or after the last.
OuterUnpin(t) ==
    /\ pc[t] \in {"idle", "done"}
    /\ depth[t] > 0
    /\ depth' = [depth EXCEPT ![t] = @ - 1]
    /\ local' = [local EXCEPT ![t] = UnpinnedLocal(t, depth[t] - 1)]
    /\ seen' = [seen EXCEPT ![t] = IF depth[t] = 1 THEN {} ELSE @]
    /\ UNCHANGED <<head, memVars, epoch, garbage, pc, localVars, progVars, dropVars,
                   stale, undefined, ghostVars, linVars, interfered, retried>>

NestNext ==
    \/ Next
    \/ \E t \in Threads : OuterPin(t)
    \/ \E t \in Threads : OuterUnpin(t)

\* The threads call the stack from inside scopes of their own.
NestSpec == LiveInit /\ [][NestNext]_vars

\* The scheduling lock-freedom assumes: some thread keeps taking steps, and the
\* weak CAS does not fail for ever while some comparison keeps matching.  No
\* single thread is promised to run.
LockFreeSpec ==
    /\ LiveInit /\ [][Next]_vars
    /\ WF_vars(\E t \in 0 .. THREADS - 1 : ThreadStep(t))
    /\ SF_vars(\E t \in 0 .. THREADS - 1 : CasWins(t))

(***************************************************************************)
(* Properties.                                                             *)
(***************************************************************************)

\* The nodes linked from pointer p, following next for at most n steps.
RECURSIVE Chain(_, _)
Chain(p, n) ==
    IF p = Null \/ n = 0 THEN <<>> ELSE <<p>> \o Chain(next[p], n - 1)

\* The nodes linked from head (one step more than there are addresses, so that a
\* cycle shows as a node that appears twice).
List == Chain(head, Cardinality(Addr) + 1)
ListValues == [i \in 1 .. Len(List) |-> value[List[i]]]

SeqToBag(s) ==
    [v \in {s[i] : i \in DOMAIN s} |-> Cardinality({i \in DOMAIN s : s[i] = v})]

AllDone == \A t \in Threads : pc[t] = "done"

\* The sequential stack after the calls of history h (the top first).
RECURSIVE StackAfter(_)
StackAfter(h) ==
    IF h = <<>> THEN <<>>
    ELSE LET s == StackAfter(SubSeq(h, 1, Len(h) - 1))
             c == h[Len(h)]
         IN  IF c.name = "push" THEN <<c.arg>> \o s
             ELSE IF c.name = "pop" /\ s # <<>> THEN Tail(s)
             ELSE s

\* What a pop after history h returns: the most recently pushed value not yet
\* popped, None when there is none.
ExpectedPop(h) == IF StackAfter(h) = <<>> THEN <<>> ELSE <<Head(StackAfter(h))>>

IsPop(c) == c.name = "pop"
PopResults == [i \in 1 .. Len(SelectSeq(hist, IsPop)) |-> SelectSeq(hist, IsPop)[i].res]

\* C1: once all threads have finished, the values popped together with the
\* values still linked from head are exactly the values pushed, as multisets.
C1_NoLossNoDuplication ==
    (AllDone /\ dpc = "live") => popped (+) SeqToBag(ListValues) = SetToBag(pushed)

C1_Witness ==
    /\ AllDone /\ dpc = "live"
    /\ BagCardinality(popped) >= 2
    /\ Len(List) >= 1
    /\ \E a \in Addr : state[a] = "freed"

C3_Linearizable ==
    /\ dpc = "live" => ListValues = abs
    /\ \A t \in Threads : pc[t] = "unpin" =>
          /\ op[t].name = "pop" => ret[t] = lin[t]
          /\ op[t].name = "is_empty" => empty[t] = linEmpty[t]

\* Two pops that overlapped are about to return different values.
C3_Witness ==
    \E t \in Threads : \E u \in Threads :
        /\ t # u
        /\ pc[t] = "unpin" /\ op[t].name = "pop" /\ ret[t] # <<>>
        /\ pc[u] = "unpin" /\ op[u].name = "pop" /\ ret[u] # <<>>

\* C4: single-threaded, every pop returns the most recently pushed value not
\* yet popped, None when there is none; the scenario of tests::push_pop returns
\* 3, 4, 2, 1, None, 5, None.
C4_Lifo ==
    /\ \A i \in 1 .. Len(hist) :
          hist[i].name = "pop" => hist[i].res = ExpectedPop(SubSeq(hist, 1, i - 1))
    /\ (script[0] = Scenario /\ pc[0] = "done") =>
          PopResults = << <<3>>, <<4>>, <<2>>, <<1>>, <<>>, <<5>>, <<>> >>

C4_Witness ==
    /\ script[0] = Scenario
    /\ pc[0] = "done"
    /\ Len(PopResults) = 7

\* C5: single-threaded, is_empty returns true exactly when the pop that
\* follows it returns None, and is_empty leaves the contents of the stack as
\* they were (between calls the list holds what the pushes and pops left).
C5_IsEmptyAgrees ==
    /\ \A i \in 1 .. Len(hist) - 1 :
          (hist[i].name = "is_empty" /\ hist[i + 1].name = "pop") =>
              (hist[i].empty <=> hist[i + 1].res = <<>>)
    /\ (pc[0] \in {"idle", "done"} /\ dpc = "live") => ListValues = StackAfter(hist)

C5_Witness ==
    \E i \in 1 .. Len(hist) - 1 : \E j \in 1 .. Len(hist) - 1 :
        /\ hist[i].name = "is_empty" /\ hist[i + 1].name = "pop"
        /\ ~hist[i].empty /\ hist[i + 1].res # <<>>
        /\ hist[j].name = "is_empty" /\ hist[j + 1].name = "pop"
        /\ hist[j].empty /\ hist[j + 1].res = <<>>

\* The thread that pushed value v in tests::stress (line 237).
Pusher(v) == v % THREADS

\* C6: walking from head, the values pushed by one thread appear in reverse of
\* that thread's push order (strictly decreasing sequence numbers).
C6_PerThreadOrder ==
    dpc = "live" =>
        \A i \in 1 .. Len(List) : \A j \in 1 .. Len(List) :
            (i < j /\ Pusher(value[List[i]]) = Pusher(value[List[j]]))
                => value[List[i]] > value[List[j]]

\* After pushes and pops by both threads, two values of one thread are linked.
C6_Witness ==
    /\ AllDone /\ dpc = "live"
    /\ Len(List) = 2
    /\ Pusher(value[List[1]]) = Pusher(value[List[2]])
    /\ BagCardinality(popped) >= 1

\* C7: the payload destructor runs once per pushed value: when the threads have
\* finished it has run once per pop that returned a value, the teardown runs it
\* once per node still linked, and after the teardown it has run once per push.
C7_DestructorsOnce ==
    /\ (AllDone /\ dpc = "live") =>
          /\ dropped = BagCardinality(popped)
          /\ dropped + Len(List) = Cardinality(pushed)
    /\ dpc = "drop" => dropped + Len(Chain(curr, Cardinality(Addr) + 1)) = Cardinality(pushed)
    /\ dpc = "dropped" => dropped = Cardinality(pushed)

C7_Witness ==
    /\ dpc = "dropped"
    /\ BagCardinality(popped) >= 1
    /\ dropped >= BagCardinality(popped) + 2

\* C8: the teardown frees only Published nodes, each once, and leaves none
\* behind; the nodes in the garbage bags stay Retired, so that none is freed by
\* the teardown and by reclamation.
C8_Teardown ==
    /\ (dpc = "drop" /\ ~IsNull(curr)) => state[curr] = "published"
    /\ dpc = "dropped" => \A a \in Addr : state[a] # "published"
    /\ dpc # "live" => \A e \in BagToSet(garbage) : state[e[1]] = "retired"
    /\ dpc # "live" => ~undefined

\* The teardown has freed a node while a retired node waits in a bag.
C8_Witness ==
    /\ dpc = "dropped"
    /\ dropped >= BagCardinality(popped) + 1
    /\ garbage # EmptyBag

\* The steps of the lifecycle of a node; an address that was never allocated or
\* has been freed starts the lifecycle of a new node.
Lifecycle ==
    { <<"unalloc", "unpublished">>, <<"freed", "unpublished">>,
      <<"unpublished", "published">>, <<"published", "retired">>,
      <<"retired", "freed">> }

\* C9: every node goes Unpublished -> Published -> Retired -> freed, one step
\* at a time.
C9_Lifecycle ==
    [][\A a \in Addr : state'[a] # state[a] => <<state[a], state'[a]>> \in Lifecycle]_vars

\* The number of times address a is in the garbage bags.
RetiredCopies(a) ==
    BagCardinality([e \in {f \in BagToSet(garbage) : f[1] = a} |-> garbage[e]])

\* C9, amended: as C9, except that the teardown frees the nodes that are still
\* Published directly; a node is retired at most once and freed at most once.
C9_LifecycleAmended ==
    /\ [][\A a \in Addr : state'[a] # state[a] =>
            \/ <<state[a], state'[a]>> \in Lifecycle
            \/ dpc = "drop" /\ a = curr /\ <<state[a], state'[a]>> = <<"published", "freed">>]_vars
    /\ [](\A a \in Addr : RetiredCopies(a) <= 1)
    /\ [](\A a \in Addr : RetiredCopies(a) = 1 <=> state[a] = "retired")
    /\ []~undefined

\* Reclamation has freed every popped node and the teardown the rest.
C9_Witness ==
    /\ dpc = "dropped"
    /\ garbage = EmptyBag
    /\ BagCardinality(popped) >= 1
    /\ dropped >= BagCardinality(popped) + 1

\* C10: the global epoch changes only by one generation upwards, and only when
\* every pinned participant's local epoch equals it; it is never more than one
\* generation ahead of the local epoch of a pinned participant.
C10_EpochAdvance ==
    /\ [](\A t \in Threads : local[t] # NotPinned => local[t] \in {epoch - 1, epoch})
    /\ [][epoch' # epoch =>
            /\ epoch' = epoch + 1
            /\ \A t \in Threads : local[t] # NotPinned => local[t] = epoch]_vars

\* A pinned participant lags one generation behind the global epoch.
C10_Witness ==
    /\ epoch = 2
    /\ \E t \in Threads : local[t] = 1

\* The entries of the garbage bags that a step removes.
Collected == {e \in BagToSet(garbage) : e \notin BagToSet(garbage')}

InOperation(t) == pc[t] \notin {"idle", "done"}

\* Node a waits in a bag whose generation the bounded epoch can still get two
\* generations past.
Reclaimable(a) == \E e \in BagToSet(garbage) : e[1] = a /\ e[2] + 2 <= MaxEpoch

RECURSIVE Completed(_)
Completed(T) ==
    IF T = {} THEN 0 ELSE LET t == CHOOSE u \in T : TRUE IN ops[t] + Completed(T \ {t})

\* C13: a CAS on head whose comparison fails has been overtaken by another
\* thread's successful CAS since the thread last read head; and while some
\* thread is inside an operation, an operation eventually completes.
C13_LockFree ==
    /\ [](\A t \in 0 .. THREADS - 1 :
            (pc[t] \in {"push_cas", "pop_cas"} /\ ~CasMatches(hd[t])) => interfered[t])
    /\ \A n \in 0 .. THREADS * MaxLiveOps :
          ((\E t \in 0 .. THREADS - 1 : InOperation(t)) /\ Completed(Threads) = n)
              ~> (Completed(Threads) > n)

\* The CAS of a pop is about to fail because another thread, which has since
\* completed its operation, changed head.
C13_Witness ==
    \E t \in Threads : \E u \in Threads :
        /\ t # u
        /\ pc[t] = "pop_cas" /\ ~CasMatches(hd[t]) /\ interfered[t]
        /\ ops[u] >= 1 /\ ~InOperation(u)

\* C14: a failed CAS of push gives back the same unpublished node with its
\* payload, leaves head as it is, hands over the current head, and the retry
\* links the node to it; the CAS that succeeds publishes the node, once, with
\* its next equal to the head it replaced.
C14_PushCasFailure ==
    /\ [](\A t \in Threads : pc[t] = "push_cas" =>
            /\ state[node[t]] = "unpublished"
            /\ value[node[t]] = op[t].arg
            /\ next[node[t]] = hd[t])
    /\ [][\A t \in Threads : (PushCas(t) /\ pc'[t] = "push_cas") =>
            /\ head' = head
            /\ node'[t] = node[t]
            /\ state'[node[t]] = "unpublished"
            /\ value'[node[t]] = value[node[t]]
            /\ hd'[t] = head
            /\ next'[node[t]] = head]_vars
    /\ [][\A t \in Threads : (PushCas(t) /\ pc'[t] = "unpin") =>
            /\ head' = node[t]
            /\ state[node[t]] = "unpublished" /\ state'[node[t]] = "published"
            /\ value'[node[t]] = op[t].arg
            /\ next'[node[t]] = head]_vars
    /\ [][\A a \in Addr : (state[a] # "published" /\ state'[a] = "published") =>
            \E t \in Threads : PushCas(t) /\ node[t] = a]_vars

\* A push has published its node after a failed CAS, linked to the node that
\* was head when it succeeded.
C14_Witness ==
    \E t \in Threads :
        /\ pc[t] = "unpin" /\ op[t].name = "push" /\ retried[t]
        /\ head = node[t]
        /\ next[node[t]] # Null

\* A step of a push or pop of thread t that is not its successful CAS nor after it.
BeforeCasWins(t) ==
    \/ PushNew(t) \/ PushPin(t) \/ PushLoad(t) \/ (PushCas(t) /\ pc'[t] = "push_cas")
    \/ PopPin(t) \/ PopLoad(t) \/ PopDeref(t) \/ (PopCas(t) /\ pc'[t] = "pop_deref")

\* Nothing another thread than t can reach leads to address a: not head, not
\* the next of a Published node, not a bag, not a pointer another thread holds
\* nor the next of the node it points to.
Private(t, a) ==
    /\ \A i \in 1 .. Len(List) : List[i] # a
    /\ \A b \in Addr : state[b] = "published" => next[b] # a
    /\ \A e \in BagToSet(garbage) : e[1] # a
    /\ \A u \in Threads \ {t} :
          /\ node[u] # a
          /\ Holding(u) => hd[u] # a /\ next[hd[u]] # a
          /\ HoldingNext(u) => nx[u] # a

\* C15: up to its successful CAS a push or pop changes nothing that the other
\* threads share or hold: head, the sequential stack, the Published and Retired
\* nodes, the bags and the other threads' locals stay as they are, and the
\* node a push has not yet published is reachable by no other thread.  A thread
\* that stops there for ever leaves the others as if it had not called.
C15_AbandonedThread ==
    /\ [][\A t \in Threads : BeforeCasWins(t) =>
            /\ head' = head /\ abs' = abs /\ garbage' = garbage
            /\ \A a \in Addr : state[a] \in {"published", "retired"} =>
                  state'[a] = state[a] /\ value'[a] = value[a] /\ next'[a] = next[a]
            /\ \A u \in Threads \ {t} :
                  /\ pc'[u] = pc[u] /\ node'[u] = node[u] /\ hd'[u] = hd[u]
                  /\ nx'[u] = nx[u] /\ ret'[u] = ret[u] /\ lin'[u] = lin[u]
                  /\ stale'[u] = stale[u]]_vars
    /\ [](\A t \in Threads :
            pc[t] \in {"push_pin", "push_load", "push_cas"} =>
                state[node[t]] = "unpublished" /\ Private(t, node[t]))

\* A push is in its retry loop, its CAS having failed, while the other threads
\* have completed all their operations, pops that returned values included.
C15_Witness ==
    \E t \in Threads :
        /\ pc[t] = "push_cas" /\ retried[t]
        /\ \A u \in Threads \ {t} : pc[u] = "done"
        /\ BagCardinality(popped) >= 1
        /\ head # Null

\* A step of thread t that pins, and one that unpins.
Pins(t) == PushPin(t) \/ PopPin(t) \/ IsEmptyPin(t) \/ OuterPin(t)
Unpins(t) == Unpin(t) \/ OuterUnpin(t)

Retiring(t) ==
    \/ pc[t] = "pop_read"
    \/ pc[t] = "unpin" /\ op[t].name = "pop" /\ ret[t] # <<>>

\* C18: defer_free only adds the node to a garbage bag: head, the global
\* epoch, the participant records and the memory of every node are as before;
\* the node is unfreed when pop reads the payload out of it and until the
\* scope that retired it is released.
C18_DeferFreeNoWork ==
    /\ [][\A t \in Threads : PopRetire(t) =>
            /\ head' = head /\ epoch' = epoch /\ local' = local /\ depth' = depth
            /\ value' = value /\ next' = next
            /\ \A a \in Addr : a # hd[t] => state'[a] = state[a]
            /\ state[hd[t]] = "published" /\ state'[hd[t]] = "retired"
            /\ \E tag \in 0 .. MaxEpoch : garbage' = garbage (+) SetToBag({<<hd[t], tag>>})
            /\ BagCardinality(garbage') = BagCardinality(garbage) + 1]_vars
    /\ [](\A t \in Threads : Retiring(t) =>
            /\ state[hd[t]] = "retired"
            /\ RetiredCopies(hd[t]) = 1
            /\ pc[t] = "unpin" => ret[t] = <<value[hd[t]]>>)

\* A pop is about to return the payload of the node it retired; the global
\* epoch has advanced since and the node is still in its bag.
C18_Witness ==
    \E t \in Threads :
        /\ pc[t] = "unpin" /\ op[t].name = "pop" /\ ret[t] # <<>>
        /\ epoch = local[t] + 1
        /\ \E e \in BagToSet(garbage) : e[1] = hd[t] /\ e[2] = local[t]

C20_ListShape ==
    /\ [](dpc = "live" =>
            /\ Len(List) <= Cardinality(Addr)
            /\ \A i \in 1 .. Len(List) : \A j \in 1 .. Len(List) : List[i] = List[j] => i = j
            /\ \A i \in 1 .. Len(List) : state[List[i]] = "published"
            /\ \A a \in Addr : state[a] = "published" =>
                  \/ \E i \in 1 .. Len(List) : List[i] = a
                  \/ \E t \in Threads : pc[t] = "pop_retire" /\ hd[t] = a)
    /\ [][head' # head =>
            \/ \E t \in Threads :
                  /\ PushCas(t) /\ head' = node[t]
                  /\ state[node[t]] = "unpublished" /\ next'[node[t]] = head
                  /\ List' = <<node[t]>> \o List
            \/ \E t \in Threads :
                  /\ PopCas(t) /\ head # Null /\ head' = next[head]
                  /\ List' = Tail(List)]_vars

\* Both addresses of the pool are linked after a pop has returned: a node of
\* the list lies at an address that was retired, freed and allocated again.
C20_Witness ==
    /\ dpc = "live"
    /\ Len(List) = Cardinality(Addr)
    /\ BagCardinality(popped) >= 1

====
